---- MODULE Spec2Model ----
(***************************************************************************)
(* Model of the two scripts of the repository:                             *)
(*   src/compare.py  - the image similarity comparator and its CLI         *)
(*   src/samples/render_test/golden/create_golden_scene.py - the main      *)
(*     sequence of the golden-scene generator                              *)
(***************************************************************************)
EXTENDS Integers, Sequences, FiniteSets, TLC

(***************************************************************************)
(* Bounds of the model                                                     *)
(***************************************************************************)
\* number of command-line path arguments tried (len(sys.argv) - 1)
MaxArgs == 3
\* largest image width and height in the file system of the main model
MaxW == 2
MaxH == 2
\* largest pixel count, and largest number of matching or mismatching
\* pixels, tried for the percentage and its formatting
MaxTotal == 20001
MaxOff == 2
\* longest sys.argv tried for the golden-scene script
MaxArgv == 4

\* 8-bit channel range produced by convert('RGB')
MaxChannel == 255
\* the margin of compare.py line 22
Tolerance == 5

(***************************************************************************)
(* Images: PIL size is (width, height); the numpy array has shape          *)
(* (height, width, 3), modelled as px[y][x][c].                            *)
(***************************************************************************)
Paths == {"a.png", "b.png"}

Palette == { <<0, 0, 0>>, <<0, 5, 6>>, <<255, 255, 255>> }

Sizes == { <<w, h>> : w \in 1..MaxW, h \in 1..MaxH }

\* an image of the given size: the first k positions (row-major) hold fg,
\* the others bg
MkImage(w, h, bg, fg, k) ==
    [ size |-> <<w, h>>,
      px   |-> [ y \in 1..h |-> [ x \in 1..w |->
                   IF (y - 1) * w + x <= k THEN fg ELSE bg ] ] ]

Images ==
    { MkImage(s[1], s[2], bg, bg, 0) : s \in Sizes, bg \in Palette }
    \cup
    { MkImage(c[1][1], c[1][2], c[2], c[3], 1) :
        c \in { d \in Sizes \X Palette \X Palette :
                  d[2] # d[3] /\ d[1][1] * d[1][2] >= 2 } }

\* value of img1 / img2 before Image.open has returned
NoImage == [ size |-> <<0, 0>>, px |-> <<>> ]

Width(img)  == img.size[1]
Height(img) == img.size[2]

\* a file either decodes to an image or makes Image.open(...).convert raise
Unreadable == [ readable |-> FALSE, image |-> NoImage ]
FileOf(img) == [ readable |-> TRUE, image |-> img ]
Files == { FileOf(i) : i \in Images } \cup { Unreadable }

IsUniform(img) ==
    \A y \in 1..Height(img), x \in 1..Width(img) : img.px[y][x] = img.px[1][1]

\* img.resize(size): the resampling filter belongs to the imaging library,
\* not to this repository.  Any image of the requested size is a possible
\* result, except that a single-colour image stays that colour (the filter
\* weights are normalised).
Resize(img, size) ==
    IF IsUniform(img)
    THEN { MkImage(size[1], size[2], img.px[1][1], img.px[1][1], 0) }
    ELSE { i \in Images : i.size = size }

(***************************************************************************)
(* Array arithmetic of compare_images, lines 17-25                         *)
(***************************************************************************)
\* np.array(img).astype(int): uint8 widened to a 64-bit integer, value kept
AsInt(v) == v

\* the subtraction as uint8 arithmetic would carry it out (no astype(int))
ArrSubUint8(x, y) == (x - y) % (MaxChannel + 1)
\* elementwise arr1 - arr2 on the widened arrays (no wrap-around possible
\* for operands in 0..255)
ArrSub(x, y) == x - y

\* the difference left signed
AbsId(v) == v
\* np.abs
Abs(v) == IF v < 0 THEN -v ELSE v

\* diff = np.abs(arr1 - arr2), one channel
ChannelDiff(a, b) == Abs(ArrSub(AsInt(a), AsInt(b)))

\* the comparison turned round
PixelCloseInverted(p, q, tol) == \A c \in 1..3 : ChannelDiff(p[c], q[c]) >= tol
\* np.all(diff <= tol, axis=2) at one pixel position
PixelClose(p, q, tol) == \A c \in 1..3 : ChannelDiff(p[c], q[c]) <= tol

\* close_pixels: a (height, width) boolean array
ClosePixels(i1, i2, tol) ==
    [ y \in 1..Height(i1) |-> [ x \in 1..Width(i1) |->
        PixelClose(i1.px[y][x], i2.px[y][x], tol) ] ]

Positions(cp) == { <<y, x>> : y \in DOMAIN cp, x \in 1..(IF cp = <<>> THEN 0 ELSE Len(cp[1])) }

\* np.sum(close_pixels)
SumTrue(cp) == Cardinality({ p \in Positions(cp) : cp[p[1]][p[2]] })

\* diff.size, which counts the three channel values of every pixel
ArraySizeWithChannels(cp) == 3 * Cardinality(Positions(cp))
\* close_pixels.size
ArraySize(cp) == Cardinality(Positions(cp))

(***************************************************************************)
(* IEEE-754 binary64 arithmetic of lines 27-28.  A positive double is      *)
(* 1.f * 2^exp with 52 fraction bits f, held as four 13-bit limbs (most    *)
(* significant first); every operation rounds to nearest, ties to even.    *)
(* The integer operands stay below 2^18, so that no intermediate value     *)
(* leaves the 32-bit range.                                                *)
(***************************************************************************)
Base == 2^13

FloatZero == [ zero |-> TRUE, exp |-> 0, frac |-> <<0, 0, 0, 0>> ]

\* 1.f + 2^-52, renormalised when the fraction overflows
IncFrac(f, e) ==
    LET d == f[4] + 1
        c == f[3] + d \div Base
        b == f[2] + c \div Base
        a == f[1] + b \div Base
    IN  IF a \div Base = 1
        THEN [ zero |-> FALSE, exp |-> e + 1, frac |-> <<0, 0, 0, 0>> ]
        ELSE [ zero |-> FALSE, exp |-> e,
               frac |-> <<a % Base, b % Base, c % Base, d % Base>> ]

\* round to nearest, ties to even: guard is the first dropped bit, sticky
\* says that a non-zero bit follows it
RoundFrac(f, e, guard, sticky) ==
    IF guard /\ (sticky \/ f[4] % 2 = 1)
    THEN IncFrac(f, e)
    ELSE [ zero |-> FALSE, exp |-> e, frac |-> f ]

RECURSIVE LeadShift(_, _)
\* the s with t <= m * 2^s < 2t, for 0 < m <= t
LeadShift(m, t) == IF m >= t THEN 0 ELSE 1 + LeadShift(2 * m, t)

\* the next 13 quotient bits of r / t and the remainder left, for r < t
DivStep(r, t) == [ q |-> (r * Base) \div t, r |-> (r * Base) % t ]

\* the double nearest to (t + r) / t * 2^-s, for 0 <= r < t
FloatQuotient(r, s, t) ==
    LET s1 == DivStep(r, t)
        s2 == DivStep(s1.r, t)
        s3 == DivStep(s2.r, t)
        s4 == DivStep(s3.r, t)
    IN  RoundFrac(<<s1.q, s2.q, s3.q, s4.q>>, -s,
                  2 * s4.r >= t, (2 * s4.r) % t # 0)

FloatDivShifted(m, s, t) == FloatQuotient(m * 2^s - t, s, t)

\* match_pixels / total_pixels: true division of two integers,
\* 0 <= m <= t, t > 0
FloatDiv(m, t) ==
    IF m = 0 THEN FloatZero ELSE FloatDivShifted(m, LeadShift(m, t), t)

\* the limbs <<top, a, b, c, d>> of the integer (2^52 + f) * k, 1 <= k < 2^13
TimesSmall(f, k) ==
    LET d == f[4] * k
        c == f[3] * k + d \div Base
        b == f[2] * k + c \div Base
        a == f[1] * k + b \div Base
    IN  <<k + a \div Base, a % Base, b % Base, c % Base, d % Base>>

\* number of binary digits of a natural number below 2^30
BitLen(v) == CHOOSE n \in 0..30 : v < 2^n /\ (n = 0 \/ v >= 2^(n - 1))

\* the product limbs p shifted right by n <= 13 bits and rounded to a double
Renormalise(p, n, e) ==
    RoundFrac([ i \in 1..4 |-> p[i + 1] \div 2^n + (p[i] % 2^n) * 2^(13 - n) ],
              e + n,
              n >= 1 /\ (p[5] \div 2^(n - 1)) % 2 = 1,
              n >= 2 /\ p[5] % 2^(n - 1) # 0)

FloatTimes(p, e) == Renormalise(p, BitLen(p[1]) - 1, e)

\* d * k for a double d and a small integer k (exactly a double itself)
FloatMulSmall(d, k) ==
    IF d.zero THEN FloatZero ELSE FloatTimes(TimesSmall(d.frac, k), d.exp)

\* the ratio without the factor 100.0
MatchFractionOnly(m, t) == FloatDiv(m, t)
\* the ratio taken with floor division (match_pixels // total_pixels)
MatchPercentageFloorDiv(m, t) ==
    IF m = t THEN FloatMulSmall(FloatDiv(m, t), 100) ELSE FloatZero

\* (match_pixels / total_pixels) * 100.0
MatchPercentage(m, t) == FloatMulSmall(FloatDiv(m, t), 100)

\* bit j (0 = least significant) of the integer with limbs <<top, a, b, c, d>>
BitAt(p, j) ==
    IF j >= 52 THEN (IF j >= 66 THEN 0 ELSE (p[1] \div 2^(j - 52)) % 2)
    ELSE (p[5 - j \div 13] \div 2^(j % 13)) % 2

RECURSIVE HighPart(_, _, _)
\* the integer made of bits j..65 of p, for a value below 2^30
HighPart(p, j, sh) ==
    IF j >= 66 THEN 0 ELSE BitAt(p, j) * 2^(j - sh) + HighPart(p, j + 1, sh)

\* round(p * 2^-sh) to an integer, ties to even, for sh >= 1
RoundShift(p, sh) ==
    IF BitAt(p, sh - 1) = 1
       /\ (BitAt(p, sh) = 1 \/ \E j \in 0..(sh - 2) : BitAt(p, j) = 1)
    THEN HighPart(p, sh, sh) + 1
    ELSE HighPart(p, sh, sh)

\* f"{d:.2f}": the decimal with two fraction digits nearest to the exact
\* value of d (ties to even), given as its number of hundredths; d < 2^7
Format2f(d) ==
    IF d.zero THEN 0 ELSE RoundShift(TimesSmall(d.frac, 100), 52 - d.exp)

(***************************************************************************)
(* compare.py: state                                                       *)
(***************************************************************************)
VARIABLES
    argv,              \* sys.argv[1:], the path arguments
    fs,                \* what each path holds
    pc,                \* position in compare.py
    opened,            \* the paths handed to Image.open so far, in order
    img1, img2,        \* the locals of compare_images
    close_pixels,
    match_pixels,
    total_pixels,
    match_percentage,
    out,               \* the lines printed to standard output
    exit_status        \* -1 while the process runs

cvars == << argv, fs, pc, opened, img1, img2, close_pixels, match_pixels,
            total_pixels, match_percentage, out, exit_status >>

(***************************************************************************)
(* create_golden_scene.py: state of the main sequence                      *)
(***************************************************************************)
VARIABLES
    g_argv,            \* sys.argv of the host application
    g_pc,              \* position in the __main__ block
    script_args,       \* the local of the same name
    g_steps            \* the host-application steps performed, in order

gvars == << g_argv, g_pc, script_args, g_steps >>

vars == << argv, fs, pc, opened, img1, img2, close_pixels, match_pixels,
           total_pixels, match_percentage, out, exit_status,
           g_argv, g_pc, script_args, g_steps >>

\* printed lines
UsageLine        == [ kind |-> "Usage", arg |-> <<>> ]
ErrorLine(path)  == [ kind |-> "Error loading images", arg |-> <<path>> ]
SizesLine(s1, s2) == [ kind |-> "Sizes differ", arg |-> <<s1, s2>> ]
MatchLine(h)     == [ kind |-> "Match", arg |-> <<h>> ]

(***************************************************************************)
(* compare.py: the steps                                                   *)
(***************************************************************************)
\* the test len(sys.argv) < 3 in place of != 3
ArgCountAtLeast(n) == n >= 3
\* line 31, negated: len(sys.argv) != 3
ArgCountOk(n) == n = 3

\* lines 30-34: the __main__ block up to the call
Main ==
    /\ pc = "main"
    /\ IF ArgCountOk(Len(argv) + 1)
       THEN pc' = "open1" /\ UNCHANGED << out, exit_status >>
       ELSE /\ out' = Append(out, UsageLine)
            /\ exit_status' = 1
            /\ pc' = "exited"
    /\ UNCHANGED << argv, fs, opened, img1, img2, close_pixels, match_pixels,
                    total_pixels, match_percentage >>
    /\ UNCHANGED gvars

\* a try block around the first Image.open only
CaughtFirstOnly(n) == n = 1
\* lines 6-9: is the n-th Image.open inside the try block; outside it the
\* exception would end the process with status 1 and a traceback on stderr
Caught(n) == TRUE

\* line 7: img1 = Image.open(img1_path).convert('RGB')
Open1 ==
    /\ pc = "open1"
    /\ opened' = Append(opened, argv[1])
    /\ IF fs[argv[1]].readable
       THEN img1' = fs[argv[1]].image /\ pc' = "open2"
                                      /\ UNCHANGED exit_status
       ELSE /\ UNCHANGED img1
            /\ IF Caught(1)
               THEN pc' = "except" /\ UNCHANGED exit_status
               ELSE pc' = "exited" /\ exit_status' = 1
    /\ UNCHANGED << argv, fs, img2, close_pixels, match_pixels, total_pixels,
                    match_percentage, out >>
    /\ UNCHANGED gvars

\* line 8: img2 = Image.open(img2_path).convert('RGB')
Open2 ==
    /\ pc = "open2"
    /\ opened' = Append(opened, argv[2])
    /\ IF fs[argv[2]].readable
       THEN img2' = fs[argv[2]].image /\ pc' = "sizecheck"
                                      /\ UNCHANGED exit_status
       ELSE /\ UNCHANGED img2
            /\ IF Caught(2)
               THEN pc' = "except" /\ UNCHANGED exit_status
               ELSE pc' = "exited" /\ exit_status' = 1
    /\ UNCHANGED << argv, fs, img1, close_pixels, match_pixels, total_pixels,
                    match_percentage, out >>
    /\ UNCHANGED gvars

\* lines 9-11: the handler prints the exception, which names the file that
\* failed, and returns
Except ==
    /\ pc = "except"
    /\ out' = Append(out, ErrorLine(opened[Len(opened)]))
    /\ pc' = "returned"
    /\ UNCHANGED << argv, fs, opened, img1, img2, close_pixels, match_pixels,
                    total_pixels, match_percentage, exit_status >>
    /\ UNCHANGED gvars

\* the other policy: img2 = img2.resize(img1.size)
ImagesAfterResizeSecond(i1, i2) == { <<i1, r>> : r \in Resize(i2, i1.size) }
\* line 15: the possible (img1, img2) after img1 = img1.resize(img2.size)
ImagesAfterResize(i1, i2) == { <<r, i2>> : r \in Resize(i1, i2.size) }

\* lines 13-15
SizeCheck ==
    /\ pc = "sizecheck"
    /\ IF img1.size # img2.size
       THEN /\ out' = Append(out, SizesLine(img1.size, img2.size))
            /\ \E pair \in ImagesAfterResize(img1, img2) :
                  img1' = pair[1] /\ img2' = pair[2]
       ELSE UNCHANGED << out, img1, img2 >>
    /\ pc' = "compare"
    /\ UNCHANGED << argv, fs, opened, close_pixels, match_pixels, total_pixels,
                    match_percentage, exit_status >>
    /\ UNCHANGED gvars

\* lines 17-25
Compare ==
    /\ pc = "compare"
    /\ close_pixels' = ClosePixels(img1, img2, Tolerance)
    /\ match_pixels' = SumTrue(close_pixels')
    /\ total_pixels' = ArraySize(close_pixels')
    /\ pc' = "report"
    /\ UNCHANGED << argv, fs, opened, img1, img2, match_percentage, out,
                    exit_status >>
    /\ UNCHANGED gvars

\* lines 27-28
Report ==
    /\ pc = "report"
    /\ match_percentage' = MatchPercentage(match_pixels, total_pixels)
    /\ out' = Append(out, MatchLine(Format2f(match_percentage')))
    /\ pc' = "returned"
    /\ UNCHANGED << argv, fs, opened, img1, img2, close_pixels, match_pixels,
                    total_pixels, exit_status >>
    /\ UNCHANGED gvars

\* compare_images has returned (line 11 or the end of the function) and the
\* script ends after line 34
Exit ==
    /\ pc = "returned"
    /\ exit_status' = 0
    /\ pc' = "exited"
    /\ UNCHANGED << argv, fs, opened, img1, img2, close_pixels, match_pixels,
                    total_pixels, match_percentage, out >>
    /\ UNCHANGED gvars

\* the golden-scene script is not running
GoldenIdle ==
    /\ g_argv = <<>>
    /\ g_pc = "idle"
    /\ script_args = <<>>
    /\ g_steps = <<>>

\* a file system whose files are never read (wrong argument count)
SomeFs == [ p \in Paths |-> Unreadable ]

\* the process has started with its arguments and the files on disk
Init ==
    /\ \E n \in 0..MaxArgs :
          /\ argv \in [ 1..n -> Paths ]
          /\ fs \in (IF n = 2 THEN [ Paths -> Files ] ELSE { SomeFs })
    /\ pc = "main"
    /\ opened = <<>>
    /\ img1 = NoImage
    /\ img2 = NoImage
    /\ close_pixels = <<>>
    /\ match_pixels = 0
    /\ total_pixels = 0
    /\ match_percentage = FloatZero
    /\ out = <<>>
    /\ exit_status = -1
    /\ GoldenIdle

Next ==
    \/ Main
    \/ Open1
    \/ Open2
    \/ Except
    \/ SizeCheck
    \/ Compare
    \/ Report
    \/ Exit

Spec == Init /\ [][Next]_vars

(***************************************************************************)
(* Lines 17-25 on every pair of channel values: two loaded 1x1 images that *)
(* differ in channel c by a against b and in the other channels by e.      *)
(***************************************************************************)
OtherDiffs == { 0, Tolerance, Tolerance + 1 }

OnePixel(p) == MkImage(1, 1, p, p, 0)

InitPixel ==
    /\ argv = << "a.png", "b.png" >>
    /\ \E c \in 1..3, a \in 0..MaxChannel, b \in 0..MaxChannel, e \in OtherDiffs :
          /\ img1 = OnePixel([ k \in 1..3 |-> IF k = c THEN a ELSE 0 ])
          /\ img2 = OnePixel([ k \in 1..3 |-> IF k = c THEN b ELSE e ])
    /\ fs = [ p \in Paths |-> FileOf(IF p = "a.png" THEN img1 ELSE img2) ]
    /\ pc = "compare"
    /\ opened = argv
    /\ close_pixels = <<>>
    /\ match_pixels = 0
    /\ total_pixels = 0
    /\ match_percentage = FloatZero
    /\ out = <<>>
    /\ exit_status = -1
    /\ GoldenIdle

NextPixel == Compare

SpecPixel == InitPixel /\ [][NextPixel]_vars

(***************************************************************************)
(* Lines 27-28 on large pixel counts: the state before line 27 of a run    *)
(* on two images of t pixels of which m match.  The pixel arrays of such   *)
(* images are not held in the state.                                       *)
(***************************************************************************)
\* an image of t pixels whose pixel array is left out
Elided(t) == [ size |-> <<t, 1>>, px |-> <<>> ]

\* the match counts within MaxOff of no match or of a full match
NearEnds(t) ==
    { m \in (0..MaxOff) \cup ((t - MaxOff)..t) : 0 <= m /\ m <= t }

InitPct ==
    /\ argv = << "a.png", "b.png" >>
    /\ total_pixels \in 1..MaxTotal
    /\ fs = [ p \in Paths |-> FileOf(Elided(total_pixels)) ]
    /\ pc = "report"
    /\ opened = argv
    /\ img1 = Elided(total_pixels)
    /\ img2 = Elided(total_pixels)
    /\ close_pixels = <<>>
    /\ match_pixels \in NearEnds(total_pixels)
    /\ match_percentage = FloatZero
    /\ out = <<>>
    /\ exit_status = -1
    /\ GoldenIdle

NextPct == Report

SpecPct == InitPct /\ [][NextPct]_vars

(***************************************************************************)
(* create_golden_scene.py, lines 312-338                                   *)
(***************************************************************************)
Tokens == { "--", "--no-render", "--background" }

\* argv.index(x): the first position of x
Index(seq, x) ==
    CHOOSE i \in 1..Len(seq) : seq[i] = x /\ \A j \in 1..(i - 1) : seq[j] # x

Contains(seq, x) == \E i \in 1..Len(seq) : seq[i] = x

\* the whole of sys.argv searched for the flag
ScriptArgsWholeArgv(a) == a
\* lines 326-330
ScriptArgs(a) ==
    IF Contains(a, "--") THEN SubSeq(a, Index(a, "--") + 1, Len(a)) ELSE <<>>

\* line 313
BuildScene ==
    /\ g_pc = "build_scene"
    /\ g_steps' = Append(g_steps, "build_scene")
    /\ g_pc' = "configure_render"
    /\ UNCHANGED << g_argv, script_args >>
    /\ UNCHANGED cvars

\* line 314
ConfigureRender ==
    /\ g_pc = "configure_render"
    /\ g_steps' = Append(g_steps, "configure_render")
    /\ g_pc' = "save"
    /\ UNCHANGED << g_argv, script_args >>
    /\ UNCHANGED cvars

\* lines 317-323: bpy.ops.wm.save_as_mainfile
SaveMainfile ==
    /\ g_pc = "save"
    /\ g_steps' = Append(g_steps, "save_as_mainfile")
    /\ g_pc' = "args"
    /\ UNCHANGED << g_argv, script_args >>
    /\ UNCHANGED cvars

\* lines 326-330
ParseArgs ==
    /\ g_pc = "args"
    /\ script_args' = ScriptArgs(g_argv)
    /\ g_pc' = "render"
    /\ UNCHANGED << g_argv, g_steps >>
    /\ UNCHANGED cvars

\* lines 332-338
RenderOrSkip ==
    /\ g_pc = "render"
    /\ IF ~Contains(script_args, "--no-render")
       THEN g_steps' = Append(g_steps, "render")
       ELSE UNCHANGED g_steps
    /\ g_pc' = "done"
    /\ UNCHANGED << g_argv, script_args >>
    /\ UNCHANGED cvars

\* compare.py is not running
CompareIdle ==
    /\ argv = <<>>
    /\ fs = SomeFs
    /\ pc = "idle"
    /\ opened = <<>>
    /\ img1 = NoImage
    /\ img2 = NoImage
    /\ close_pixels = <<>>
    /\ match_pixels = 0
    /\ total_pixels = 0
    /\ match_percentage = FloatZero
    /\ out = <<>>
    /\ exit_status = -1

InitGolden ==
    /\ \E n \in 0..MaxArgv : g_argv \in [ 1..n -> Tokens ]
    /\ g_pc = "build_scene"
    /\ script_args = <<>>
    /\ g_steps = <<>>
    /\ CompareIdle

NextGolden ==
    \/ BuildScene
    \/ ConfigureRender
    \/ SaveMainfile
    \/ ParseArgs
    \/ RenderOrSkip

SpecGolden == InitGolden /\ [][NextGolden]_vars

(***************************************************************************)
(* Properties                                                              *)
(***************************************************************************)
\* |a - b| over the integers
TrueAbsDiff(a, b) == IF a >= b THEN a - b ELSE b - a

WithinFive(p, q) == \A c \in 1..3 : TrueAbsDiff(p[c], q[c]) <= 5

TwoPaths == Len(argv) = 2
BothReadable == TwoPaths /\ fs[argv[1]].readable /\ fs[argv[2]].readable
Orig1 == fs[argv[1]].image
Orig2 == fs[argv[2]].image

Compared == pc \in { "report", "returned", "exited" } /\ close_pixels # <<>>
Reported == pc \in { "returned", "exited" } /\ out # <<>>
               /\ out[Len(out)].kind = "Match"
Printed == out[Len(out)].arg[1]

Kinds == [ i \in 1..Len(out) |-> out[i].kind ]

Black == <<0, 0, 0>>
White == <<255, 255, 255>>

FracLeq(f, g) ==
    \/ f = g
    \/ \E i \in 1..4 : f[i] < g[i] /\ \A j \in 1..(i - 1) : f[j] = g[j]

\* a <= b for two doubles that are not negative
FloatLeq(a, b) ==
    \/ a.zero
    \/ /\ ~b.zero
       /\ \/ a.exp < b.exp
          \/ a.exp = b.exp /\ FracLeq(a.frac, b.frac)

\* the double 100.0 = 1.5625 * 2^6
Hundred == [ zero |-> FALSE, exp |-> 6, frac |-> <<4608, 0, 0, 0>> ]

\* C1: in compare_images a pixel position is counted as matching exactly
\* when the true absolute difference of each of its three channels is at
\* most 5, for all channel values 0..255; nothing wraps modulo 256.
C1_MatchIffWithinFive ==
    Compared =>
        /\ \A y \in 1..Height(img2), x \in 1..Width(img2) :
              close_pixels[y][x] = WithinFive(img1.px[y][x], img2.px[y][x])
        /\ match_pixels =
              Cardinality({ yx \in (1..Height(img2)) \X (1..Width(img2)) :
                  WithinFive(img1.px[yx[1]][yx[2]], img2.px[yx[1]][yx[2]]) })

\* 0 against 255 in one channel has been compared and does not match
C1_Witness ==
    /\ pc = "report"
    /\ img1.px[1][1] = <<0, 0, 0>>
    /\ img2.px[1][1] = <<255, 0, 0>>
    /\ close_pixels[1][1] = FALSE
    /\ match_pixels = 0

\* C2: once both images are loaded and compared, the percentage is
\* (matching pixel positions / pixel positions of the second image) * 100
\* counted in pixels, not channel values; it lies in [0, 100]; the printed
\* value is the nearest hundredth; black against white of equal size gives 0.
C2_PercentageOfPixels ==
    Reported =>
        LET w     == Width(Orig2)
            h     == Height(Orig2)
            count == Cardinality({ yx \in (1..h) \X (1..w) :
                         WithinFive(img1.px[yx[1]][yx[2]],
                                    img2.px[yx[1]][yx[2]]) })
        IN  /\ match_pixels = count
            /\ total_pixels = w * h
            /\ match_percentage = MatchPercentage(count, w * h)
            /\ FloatLeq(FloatZero, match_percentage)
            /\ FloatLeq(match_percentage, Hundred)
            /\ 0 <= Printed /\ Printed <= 10000
            /\ 2 * TrueAbsDiff(Printed * (w * h), 10000 * count) <= w * h
            /\ (count = w * h) = (match_percentage = Hundred)
            /\ (count = 0) = match_percentage.zero
            /\ ( /\ Orig1.size = Orig2.size
                 /\ \A y \in 1..h, x \in 1..w :
                       Orig1.px[y][x] = Black /\ Orig2.px[y][x] = White )
               => match_percentage.zero /\ Printed = 0

\* an all-black and an all-white 2x2 image have been compared: 0.00
C2_Witness ==
    /\ pc = "exited"
    /\ img1 = MkImage(2, 2, Black, Black, 0)
    /\ img2 = MkImage(2, 2, White, White, 0)
    /\ total_pixels = 4
    /\ out = << MatchLine(0) >>

\* C3: comparing a valid image with itself takes no resize step and
\* reports exactly 100.00.
C3_Identity ==
    (TwoPaths /\ argv[1] = argv[2] /\ fs[argv[1]].readable) =>
        /\ \A i \in 1..Len(out) : out[i].kind # "Sizes differ"
        /\ pc \in { "open2", "sizecheck", "compare", "report", "returned",
                    "exited" } => img1 = Orig1
        /\ pc \in { "returned", "exited" } => out = << MatchLine(10000) >>
        /\ pc \notin { "except" }

\* a two-colour 2x2 image was compared with itself
C3_Witness ==
    /\ pc = "exited"
    /\ argv = << "a.png", "a.png" >>
    /\ img1 = MkImage(2, 2, Black, White, 1)
    /\ img2 = img1
    /\ out = << MatchLine(10000) >>

\* C4: for two images of identical width and height, compare_images(a, b)
\* and compare_images(b, a) report the same match percentage.
C4_Symmetry ==
    (BothReadable /\ Orig1.size = Orig2.size) =>
        LET swapped == ClosePixels(Orig2, Orig1, Tolerance)
            pct     == MatchPercentage(SumTrue(swapped), ArraySize(swapped))
        IN  /\ Compared => /\ match_pixels = SumTrue(swapped)
                           /\ total_pixels = ArraySize(swapped)
            /\ Reported => /\ match_percentage = pct
                           /\ out = << MatchLine(Format2f(pct)) >>

\* two different equal-size images that match in part were compared
C4_Witness ==
    /\ pc = "exited"
    /\ BothReadable
    /\ Orig1.size = Orig2.size
    /\ Orig1 # Orig2
    /\ 0 < match_pixels /\ match_pixels < total_pixels

\* C5: if either path cannot be opened or decoded, exactly one diagnostic
\* line naming the error is printed, no size-mismatch line, no Match line,
\* and no comparison is performed.
C5_LoadFailure ==
    (TwoPaths /\ ~(fs[argv[1]].readable /\ fs[argv[2]].readable)) =>
        /\ Len(out) <= 1
        /\ \A i \in 1..Len(out) : out[i].kind = "Error loading images"
        /\ pc \in { "returned", "exited" } =>
              out = << ErrorLine(IF fs[argv[1]].readable THEN argv[2]
                                                         ELSE argv[1]) >>
        /\ pc \notin { "sizecheck", "compare", "report" }
        /\ close_pixels = <<>> /\ match_pixels = 0 /\ total_pixels = 0
        /\ match_percentage = FloatZero

\* the first image loaded, the second did not, and the run has ended
C5_Witness ==
    /\ pc = "exited"
    /\ TwoPaths
    /\ fs[argv[1]].readable
    /\ ~fs[argv[2]].readable
    /\ img1 # NoImage
    /\ out = << ErrorLine(argv[2]) >>

\* C6: with a number of path arguments other than two, the usage text is
\* printed and the process ends with a non-zero status without opening any
\* image or printing a Match line; with two, the usage text is never printed.
C6_Usage ==
    /\ ~TwoPaths =>
          /\ pc \in { "main", "exited" }
          /\ opened = <<>> /\ img1 = NoImage /\ img2 = NoImage
          /\ \A i \in 1..Len(out) : out[i].kind = "Usage"
          /\ pc = "main" => out = <<>> /\ exit_status = -1
          /\ pc = "exited" => out = << UsageLine >> /\ exit_status = 1
    /\ TwoPaths => \A i \in 1..Len(out) : out[i].kind # "Usage"

\* three path arguments: usage printed, status 1, nothing opened
C6_Witness ==
    /\ pc = "exited"
    /\ Len(argv) = 3
    /\ out = << UsageLine >>
    /\ exit_status = 1
    /\ opened = <<>>

\* C7: when both images load and their sizes differ, the first image is
\* resampled to the second's width and height, the second is never
\* resampled, and one line naming both sizes is printed before the Match
\* line; when the sizes are equal nothing is resampled and the Match line is
\* the only output.
C7_ResizePolicy ==
    BothReadable =>
        /\ pc \in { "sizecheck", "compare", "report", "returned", "exited" }
              => img2 = Orig2
        /\ pc \in { "compare", "report", "returned", "exited" } =>
              /\ img1.size = Orig2.size
              /\ IF Orig1.size = Orig2.size
                 THEN img1 = Orig1 /\ \A i \in 1..Len(out) : out[i].kind = "Match"
                 ELSE out # <<>> /\ out[1] = SizesLine(Orig1.size, Orig2.size)
        /\ pc \in { "returned", "exited" } =>
              Kinds = IF Orig1.size = Orig2.size
                      THEN << "Match" >>
                      ELSE << "Sizes differ", "Match" >>

\* a 2x2 all-black image was compared with a 1x1 all-black one
C7_Witness ==
    /\ pc = "exited"
    /\ BothReadable
    /\ Orig1 = MkImage(2, 2, Black, Black, 0)
    /\ Orig2 = MkImage(1, 1, Black, Black, 0)
    /\ img1 = Orig2
    /\ out = << SizesLine(<<2, 2>>, <<1, 1>>), MatchLine(10000) >>

\* tolerances tried in place of the constant 5
Tolerances ==
    { 0, Tolerance - 1, Tolerance, Tolerance + 1, MaxChannel - 1, MaxChannel }

\* C8: for two fixed equal-size images, the match percentage with tolerance
\* T2 is at least the one with tolerance T1 whenever T2 > T1.
C8_MonotonicTolerance ==
    (pc = "report" /\ Orig1.size = Orig2.size) =>
        /\ match_pixels = SumTrue(ClosePixels(Orig1, Orig2, Tolerance))
        /\ \A t1 \in Tolerances, t2 \in Tolerances :
              t1 < t2 =>
                 LET n1 == SumTrue(ClosePixels(Orig1, Orig2, t1))
                     n2 == SumTrue(ClosePixels(Orig1, Orig2, t2))
                 IN  /\ n1 <= n2
                     /\ n1 < n2 => FloatLeq(MatchPercentage(n1, total_pixels),
                                            MatchPercentage(n2, total_pixels))

\* a pair that does not match with tolerance 5 and matches with 6
C8_Witness ==
    /\ pc = "report"
    /\ Orig1 = MkImage(1, 1, Black, Black, 0)
    /\ Orig2 = MkImage(1, 1, <<0, 5, 6>>, <<0, 5, 6>>, 0)
    /\ match_pixels = 0
    /\ SumTrue(ClosePixels(Orig1, Orig2, Tolerance + 1)) = 1

\* '--no-render' follows the first '--' of sys.argv
NoRenderRequested ==
    \E i \in 1..Len(g_argv), j \in 1..Len(g_argv) :
        /\ i < j
        /\ g_argv[i] = "--"
        /\ \A k \in 1..(i - 1) : g_argv[k] # "--"
        /\ g_argv[j] = "--no-render"

ExpectedSteps ==
    << "build_scene", "configure_render", "save_as_mainfile" >>
    \o (IF NoRenderRequested THEN <<>> ELSE << "render" >>)

IsPrefix(a, b) == Len(a) <= Len(b) /\ a = SubSeq(b, 1, Len(a))

\* C9: the golden-scene script builds the scene, configures the render,
\* always saves the project file and only then renders; the render is
\* skipped exactly when '--no-render' follows the first '--' in argv.
C9_GoldenSequence ==
    g_pc # "idle" =>
        /\ IsPrefix(g_steps, ExpectedSteps)
        /\ g_pc \in { "args", "render", "done" } =>
              SubSeq(g_steps, 1, 3) = SubSeq(ExpectedSteps, 1, 3)
        /\ g_pc = "done" => g_steps = ExpectedSteps

\* '--no-render' before the separator: the file is saved and rendered
C9_Witness ==
    /\ g_pc = "done"
    /\ g_argv = << "--no-render", "--", "--background" >>
    /\ g_steps = << "build_scene", "configure_render", "save_as_mainfile",
                    "render" >>

\* C10 as stated: the printed value is 100.00 only when every pixel
\* matches and 0.00 only when no pixel matches, for any total pixel count.
C10_Original ==
    (pc = "returned" /\ out # <<>>) =>
        /\ Printed = 10000 => match_pixels = total_pixels
        /\ Printed = 0 => match_pixels = 0

\* C10 amended: 100.00 is printed only when every pixel matches provided
\* the total is below 20000 pixels, and 0.00 only when no pixel matches
\* provided the total is at most 20000 pixels.
C10_RoundingBelowThreshold ==
    (pc = "returned" /\ out # <<>>) =>
        /\ (total_pixels < 20000 /\ Printed = 10000)
              => match_pixels = total_pixels
        /\ (total_pixels <= 20000 /\ Printed = 0) => match_pixels = 0

\* 19998 of 19999 pixels match and 99.99 is printed
C10_Witness ==
    /\ pc = "returned"
    /\ total_pixels = 19999
    /\ match_pixels = 19998
    /\ out = << MatchLine(9999) >>

====
